---- MODULE Spec2Model ----
(***************************************************************************)
(* Model of typst-lsp-sem-tok: the highlight-to-token encoder              *)
(* (src/src/main.rs, traverse_highlight / traverse_highlight_rec), the     *)
(* semantic token legend (src/src/tokens.rs) and the document handlers of  *)
(* the language server (Backend::did_open, did_change,                     *)
(* semantic_tokens_full).                                                  *)
(*                                                                         *)
(* Texts are sequences of characters; a character is a one-character       *)
(* string.  "\n" is the line break, "W" stands for a character whose       *)
(* UTF-8 encoding is two bytes long (such as e-acute), "t" for the         *)
(* backtick that delimits raw text; every other character is one byte.     *)
(* Lengths are computed as the code computes them: str::len() and          *)
(* Range::len() count bytes.  The u32 fields of a token never come near    *)
(* 2^32 for the texts considered, so they are plain naturals here.         *)
(*                                                                         *)
(* A panic in a handler unwinds through Server::serve into main: the       *)
(* process ends.  Handlers are interleaved only at their awaits.           *)
(***************************************************************************)
EXTENDS Integers, Sequences, FiniteSets, TLC

VARIABLES
    root,          \* encoder: the syntax tree handed to traverse_highlight
    todo,          \* encoder: nodes still to visit, in document order (the call stack)
    tokens,        \* encoder: the Vec<SemanticToken> being filled
    ff,            \* encoder: the HighlightFeedForward threaded through the walk
    pos,           \* ground truth: (line, column) in the source of the next unvisited text
    marks,         \* ground truth: per token, the source position where its text starts
    last,          \* ground truth: the node visited by the last step and the state before it
    since,         \* ground truth: the node of the last token and the text passed since
    document_map,  \* server: DashMap<Url, Rope>, a function from the open uris to texts
    opening,       \* server: did_open calls suspended on their log message
    crashed,       \* server: TRUE once a handler panicked (the process is gone)
    outcome,       \* server: what the last handled request or notification ended in
    changing,      \* server: per did_change call in progress, the RefMut it holds
    reading        \* server: per semantic_tokens_full call in progress, the Ref it holds

encVars == <<root, todo, tokens, ff, pos, marks, last, since>>
srvVars == <<document_map, opening, crashed, outcome, changing, reading>>
vars == <<root, todo, tokens, ff, pos, marks, last, since,
          document_map, opening, crashed, outcome, changing, reading>>

-----------------------------------------------------------------------------
(* Bounds of the model.                                                    *)

\* the number of children of the root of an enumerated syntax tree
MaxItems == 3

\* the number of entries of one change notification
MaxChanges == 2

\* the number of characters of a stored document
MaxDocLen == 2

\* the number of did_open calls suspended at the same time
MaxOpening == 1

\* the number of characters of the document of ChangeSpec
MaxTextLen == 3

-----------------------------------------------------------------------------
(* Text helpers: what str::len, str::contains, str::split do.              *)

NL == "\n"

\* the UTF-8 length of one character
CharBytes(c) == IF c = "W" THEN 2 ELSE 1

RECURSIVE StrLen(_)
\* str::len(): the length of a text in bytes
StrLen(s) == IF s = <<>> THEN 0 ELSE CharBytes(Head(s)) + StrLen(Tail(s))

\* str::contains("\n")
ContainsNl(s) == \E i \in 1..Len(s) : s[i] = NL

RECURSIVE SplitNl(_)
\* str::split("\n"): the pieces between line breaks, empty pieces included
SplitNl(s) ==
    IF ~ContainsNl(s) THEN <<s>>
    ELSE LET i == CHOOSE k \in 1..Len(s) :
                      s[k] = NL /\ \A j \in 1..(k - 1) : s[j] # NL
         IN  <<SubSeq(s, 1, i - 1)>> \o SplitNl(SubSeq(s, i + 1, Len(s)))

\* str::matches("\n").count()
CountNl(s) == Cardinality({i \in 1..Len(s) : s[i] = NL})

\* Iterator::last() of a non-empty sequence
Last(q) == q[Len(q)]

-----------------------------------------------------------------------------
(* Syntax nodes.  A leaf carries its text; an inner node carries children  *)
(* and its text() is empty (typst's SyntaxNode::text of an inner node).    *)

Leaf(k, t) == [kind |-> k, text |-> t, children |-> <<>>]
Inner(k, cs) == [kind |-> k, text |-> <<>>, children |-> cs]

RECURSIVE SumRangeLen(_)
\* node.range().len(): the byte length of everything the node spans
RangeLen(node) ==
    IF node.children = <<>> THEN StrLen(node.text)
    ELSE SumRangeLen(node.children)
SumRangeLen(cs) ==
    IF cs = <<>> THEN 0 ELSE RangeLen(Head(cs)) + SumRangeLen(Tail(cs))

\* typst::ide::highlight followed by .into(): the semantic category of a node
highlight(node) ==
    CASE node.kind = "Strong"       -> "Strong"
      [] node.kind = "Emph"         -> "Emph"
      [] node.kind = "Raw"          -> "Raw"
      [] node.kind = "Heading"      -> "Heading"
      [] node.kind = "BlockComment" -> "Comment"
      [] node.kind = "Shorthand"    -> "Escape"
      [] OTHER                      -> "None"

\* enum TypstSemanticToken, in declaration order
TypstSemanticToken ==
    << "Comment", "Punctuation", "Escape", "Strong", "Emph", "Link", "Raw",
       "Label", "Ref", "Heading", "ListMarker", "ListTerm", "MathDelimiter",
       "MathOperator", "Keyword", "Operator", "Number", "String", "Function",
       "Interpolated", "Error", "None" >>

\* to_idx counting the variants from one
to_idx_from_one(tag) ==
    CHOOSE i \in 1..Len(TypstSemanticToken) : TypstSemanticToken[i] = tag

\* ToSemanticToken::to_idx: the discriminant of the variant (*self as u32)
to_idx(tag) ==
    (CHOOSE i \in 1..Len(TypstSemanticToken) : TypstSemanticToken[i] = tag) - 1

\* ToSemanticToken::to_name: the name of the variant (IntoStaticStr)
to_name(variant) == variant

\* the legend of initialize (lines 28-33): the names of the variants in the
\* order TypstSemanticToken::iter() yields them, the order of declaration
legend ==
    [i \in 1..Len(TypstSemanticToken) |-> to_name(TypstSemanticToken[i])]

-----------------------------------------------------------------------------
(* traverse_highlight_rec, one node at a time.                             *)

\* Descends with Strong left out of the match of line 137
DescendsIntoStrong(node) ==
    /\ highlight(node) \notin {"Emph"}
    /\ Len(node.children) > 0

\* the walk recurses into the node's children and returns (lines 135-145)
Descends(node) ==
    /\ highlight(node) \notin {"Emph", "Strong"}
    /\ Len(node.children) > 0

\* Emits with only whitespace treated as uncategorised
EmitsUnlessSpace(node) == node.kind \notin {"Space", "Parbreak"}

\* a token is pushed for the node (the else branch of line 156)
Emits(node) == highlight(node) # "None"

\* the token pushed at lines 159-165
NodeToken(node, f) ==
    [ delta_line |-> f.delta_line,
      delta_start |-> f.delta_start,
      length |-> RangeLen(node),
      token_type |-> to_idx(highlight(node)),
      token_modifiers_bitset |-> 0 ]

\* Skip without the node's length after a token was pushed
SkipNoAdvance(node, f) ==
    IF Emits(node)
    THEN [delta_line |-> 0, delta_start |-> 0]
    ELSE [delta_line |-> f.delta_line,
          delta_start |-> f.delta_start + RangeLen(node)]

\* (skip_line, skip_start) of lines 156-167
Skip(node, f) ==
    IF Emits(node)
    THEN [delta_line |-> 0, delta_start |-> RangeLen(node)]
    ELSE [delta_line |-> f.delta_line,
          delta_start |-> f.delta_start + RangeLen(node)]

\* the condition of line 169
IsBreakingSpace(node) ==
    node.kind \in {"Space", "Parbreak"} /\ ContainsNl(node.text)

\* the condition of line 181
IsMultilineRaw(node) ==
    node.kind = "Raw" /\ ContainsNl(node.text)

\* SpaceFeed without the line breaks added to the line gap
SpaceFeedNoLines(node, skip) ==
    [ delta_line |-> skip.delta_line,
      delta_start |-> StrLen(Last(SplitNl(node.text))) ]

\* the feed-forward after a whitespace node with line breaks (lines 171-180)
SpaceFeed(node, skip) ==
    [ delta_line |-> skip.delta_line + CountNl(node.text),
      delta_start |-> StrLen(Last(SplitNl(node.text))) ]

\* the token pushed for one further line of a raw block (lines 187-193)
RawLineToken(line) ==
    [ delta_line |-> 1,
      delta_start |-> 0,
      length |-> StrLen(line),
      token_type |-> to_idx("Raw"),
      token_modifiers_bitset |-> 0 ]

\* RawLineTokens without the skip(1) of line 186
RawLineTokensNoSkip(node) ==
    LET lines == SplitNl(node.text)
    IN  [i \in 1..Len(lines) |-> RawLineToken(lines[i])]

\* the tokens pushed by the loop of lines 186-195: every line but the first
RawLineTokens(node) ==
    LET lines == Tail(SplitNl(node.text))
    IN  [i \in 1..Len(lines) |-> RawLineToken(lines[i])]

\* RawFeed with the length of the whole block
RawFeedWholeBlock(node) ==
    [delta_line |-> 0, delta_start |-> RangeLen(node)]

\* the feed-forward after a multi-line raw block (lines 184, 194, 196-199)
RawFeed(node) ==
    LET lines == Tail(SplitNl(node.text))
    IN  [ delta_line |-> 0,
          delta_start |-> IF lines = <<>> THEN 0 ELSE StrLen(Last(lines)) ]

\* the tokens after the leaf part of traverse_highlight_rec (lines 147-205)
LeafTokens(node, toks, f) ==
    LET first == IF Emits(node) THEN <<NodeToken(node, f)>> ELSE <<>>
        more  == IF ~IsBreakingSpace(node) /\ IsMultilineRaw(node)
                 THEN RawLineTokens(node) ELSE <<>>
    IN  toks \o first \o more

\* the feed-forward returned by the leaf part (lines 169-205)
LeafFeed(node, f) ==
    IF IsBreakingSpace(node) THEN SpaceFeed(node, Skip(node, f))
    ELSE IF IsMultilineRaw(node) THEN RawFeed(node)
    ELSE Skip(node, f)

RECURSIVE traverse_highlight_rec(_, _, _)
RECURSIVE traverse_children(_, _, _)
\* the loop of lines 139-141 over the children of a node
traverse_children(cs, toks, f) ==
    IF cs = <<>> THEN [tokens |-> toks, ff |-> f]
    ELSE LET r == traverse_highlight_rec(Head(cs), toks, f)
         IN  traverse_children(Tail(cs), r.tokens, r.ff)
\* traverse_highlight_rec as one call: the tokens and the feed-forward it returns
traverse_highlight_rec(node, toks, f) ==
    IF Descends(node) THEN traverse_children(node.children, toks, f)
    ELSE [tokens |-> LeafTokens(node, toks, f), ff |-> LeafFeed(node, f)]

\* traverse_highlight: the walk from the root with a zero feed-forward
traverse_highlight(node) ==
    traverse_highlight_rec(node, <<>>, [delta_line |-> 0, delta_start |-> 0]).tokens

-----------------------------------------------------------------------------
(* Ground truth: where text really is in the source.                       *)

RECURSIVE FlatText(_)
RECURSIVE FlatTexts(_)
\* the source text a node spans
FlatText(node) ==
    IF node.children = <<>> THEN node.text ELSE FlatTexts(node.children)
FlatTexts(cs) ==
    IF cs = <<>> THEN <<>> ELSE FlatText(Head(cs)) \o FlatTexts(Tail(cs))

\* the source position reached from p after the text t
Advance(p, t) ==
    IF ContainsNl(t)
    THEN [line |-> p.line + CountNl(t), col |-> StrLen(Last(SplitNl(t)))]
    ELSE [line |-> p.line, col |-> p.col + StrLen(t)]

\* the source positions at which the tokens pushed for a node start: the
\* node's own start, then the start of each further line of a raw block
NodeMarks(node, p, n) ==
    [i \in 1..n |-> IF i = 1 /\ Emits(node) THEN p
                    ELSE [line |-> p.line + (IF Emits(node) THEN i - 1 ELSE i),
                          col |-> 0]]

-----------------------------------------------------------------------------
(* The syntax trees the encoder is run on.                                 *)

Star == Leaf("Star", <<"*">>)
Underscore == Leaf("Underscore", <<"_">>)
TextC == Leaf("Text", <<"c">>)

TextNodes == {TextC, Leaf("Text", <<"c", "c">>), Leaf("Text", <<"W">>)}

SpaceNodes ==
    { Leaf("Space", <<" ">>), Leaf("Space", <<NL>>),
      Leaf("Space", <<NL, " ">>), Leaf("Space", <<" ", NL>>) }

ParbreakNodes == {Leaf("Parbreak", <<NL, NL>>)}

RawOneLine == Leaf("Raw", <<"t", "c", "t">>)
RawTwoLines == Leaf("Raw", <<"t", "c", NL, "t">>)
RawThreeLines == Leaf("Raw", <<"t", "t", "t", NL, NL, "c", "t", "t", "t">>)
RawNodes == {RawOneLine, RawTwoLines, RawThreeLines}

CommentNodes ==
    { Leaf("BlockComment", <<"/", "*", "*", "/">>),
      Leaf("BlockComment", <<"/", "*", NL, "*", "/">>) }

Strong(cs) == Inner("Strong", <<Star, Inner("Markup", cs), Star>>)
Emph(cs) == Inner("Emph", <<Underscore, Inner("Markup", cs), Underscore>>)

WrapperNodes ==
    { Strong(<<TextC>>),
      Strong(<<Leaf("Text", <<"W">>)>>),
      Strong(<<TextC, Leaf("Space", <<NL>>), TextC>>),
      Strong(<<Emph(<<TextC>>)>>),
      Emph(<<TextC>>),
      Emph(<<RawTwoLines>>) }

Heading(cs) ==
    Inner("Heading",
          <<Leaf("HeadingMarker", <<"=">>), Leaf("Space", <<" ">>),
            Inner("Markup", cs)>>)

HeadingNodes == {Heading(<<TextC>>), Heading(<<Strong(<<TextC>>)>>)}

Items ==
    TextNodes \cup SpaceNodes \cup ParbreakNodes \cup RawNodes
        \cup CommentNodes \cup WrapperNodes \cup HeadingNodes

\* the tree of the source "# Title\n*bold* word"
TitleBoldTree ==
    Inner("Markup",
          << Inner("Heading",
                   << Leaf("HeadingMarker", <<"#">>), Leaf("Space", <<" ">>),
                      Leaf("Text", <<"T", "i", "t", "l", "e">>) >>),
             Leaf("Space", <<NL>>),
             Inner("Strong",
                   << Star,
                      Inner("Markup", <<Leaf("Text", <<"b", "o", "l", "d">>)>>),
                      Star >>),
             Leaf("Space", <<" ">>),
             Leaf("Text", <<"w", "o", "r", "d">>) >>)

\* the tree of a bold word, a line break, an accented letter, a space and a
\* bold word
AccentLineTree ==
    Inner("Markup",
          << Strong(<<TextC>>), Leaf("Space", <<NL>>), Leaf("Text", <<"W">>),
             Leaf("Space", <<" ">>), Strong(<<TextC>>) >>)

Roots ==
    {Inner("Markup", cs) : cs \in UNION {[1..n -> Items] : n \in 0..MaxItems}}
        \cup {TitleBoldTree, AccentLineTree}

-----------------------------------------------------------------------------
(* The encoder as a state machine: one step per call of                    *)
(* traverse_highlight_rec.                                                 *)

\* the value of since before the first token
NoSince == [has |-> FALSE, node |-> Leaf("Eof", <<>>), text |-> <<>>]

\* the value of last before the first step
NoStep == [node |-> Leaf("Eof", <<>>), ff |-> [delta_line |-> 0, delta_start |-> 0],
           ntok |-> 0, pos |-> [line |-> 0, col |-> 0], rest |-> <<>>,
           since |-> NoSince, leaf |-> FALSE]

\* traverse_highlight (lines 114-123): the walk starts at the root
EncInit ==
    /\ root \in Roots
    /\ todo = <<root>>
    /\ tokens = <<>>
    /\ ff = [delta_line |-> 0, delta_start |-> 0]
    /\ pos = [line |-> 0, col |-> 0]
    /\ marks = <<>>
    /\ last = NoStep
    /\ since = NoSince

\* lines 135-145: a node with children that is no wrapper hands the walk to
\* its children, in order
Descend ==
    /\ todo # <<>>
    /\ Descends(Head(todo))
    /\ todo' = Head(todo).children \o Tail(todo)
    /\ last' = [node |-> Head(todo), ff |-> ff, ntok |-> Len(tokens),
                pos |-> pos, rest |-> Tail(todo), since |-> since,
                leaf |-> FALSE]
    /\ UNCHANGED <<root, tokens, ff, pos, marks, since>>
    /\ UNCHANGED srvVars

\* lines 147-205: a leaf, or a Strong or Emph node, is handled as a unit
VisitLeaf ==
    /\ todo # <<>>
    /\ ~Descends(Head(todo))
    /\ LET node == Head(todo)
           toks == LeafTokens(node, tokens, ff)
       IN  /\ tokens' = toks
           /\ ff' = LeafFeed(node, ff)
           /\ marks' = marks \o NodeMarks(node, pos, Len(toks) - Len(tokens))
           /\ pos' = Advance(pos, FlatText(node))
           /\ last' = [node |-> node, ff |-> ff, ntok |-> Len(tokens),
                       pos |-> pos, rest |-> Tail(todo), since |-> since,
                       leaf |-> TRUE]
           /\ since' = IF Len(toks) > Len(tokens)
                       THEN [has |-> TRUE, node |-> node, text |-> <<>>]
                       ELSE [since EXCEPT !.text = @ \o FlatText(node)]
    /\ todo' = Tail(todo)
    /\ UNCHANGED root
    /\ UNCHANGED srvVars

EncNext == Descend \/ VisitLeaf

-----------------------------------------------------------------------------
(* The document store and the handlers of the language server.             *)

Uris == {"a.typ", "b.typ"}

\* the texts did_open is called with
OpenTexts == {<<"c", NL>>}

\* Rope::len_chars
len_chars(text) == Len(text)

\* Rope::len_lines: the line breaks plus one
len_lines(text) == CountNl(text) + 1

\* Rope::line_to_char panics (the line index is past len_lines)
line_to_char_panics(text, line) == line > len_lines(text)

\* line_to_char answering with the index of the line break before the line
line_to_char_of_break(text, line) ==
    IF line = 0 THEN 0
    ELSE IF line >= len_lines(text) THEN len_chars(text)
    ELSE (CHOOSE k \in 1..Len(text) :
             text[k] = NL /\ Cardinality({j \in 1..k : text[j] = NL}) = line) - 1

\* Rope::line_to_char: the index of the first character of the line; the
\* line index len_lines is answered with len_chars
line_to_char(text, line) ==
    IF line = 0 THEN 0
    ELSE IF line >= len_lines(text) THEN len_chars(text)
    ELSE CHOOSE k \in 1..Len(text) :
             text[k] = NL /\ Cardinality({j \in 1..k : text[j] = NL}) = line

\* Rope::remove panics: the range is reversed or ends past len_chars
remove_panics(text, start_idx, end_idx) ==
    \/ start_idx > len_chars(text)
    \/ end_idx > len_chars(text)
    \/ start_idx > end_idx

\* Rope::insert(start_idx, new) followed by Rope::remove(start_idx..end_idx)
insert_remove(text, start_idx, end_idx, new) ==
    LET inserted == SubSeq(text, 1, start_idx) \o new
                        \o SubSeq(text, start_idx + 1, Len(text))
    IN  SubSeq(inserted, 1, start_idx)
            \o SubSeq(inserted, end_idx + 1, Len(inserted))

\* Rope::remove(start_idx..end_idx) followed by Rope::insert(start_idx, new)
remove_insert(text, start_idx, end_idx, new) ==
    SubSeq(text, 1, start_idx) \o new \o SubSeq(text, end_idx + 1, Len(text))

NoRange == [none |-> TRUE,
            start |-> [line |-> 0, character |-> 0],
            end |-> [line |-> 0, character |-> 0]]
Range(sl, sc, el, ec) ==
    [none |-> FALSE,
     start |-> [line |-> sl, character |-> sc],
     end |-> [line |-> el, character |-> ec]]

\* one TextDocumentContentChangeEvent handled by the loop body of lines 97-104:
\* the text afterwards, or a panic that leaves the text as it was
apply_change(text, change) ==
    IF change.range.none THEN [panic |-> FALSE, text |-> change.text]
    ELSE IF \/ line_to_char_panics(text, change.range.start.line)
            \/ line_to_char_panics(text, change.range.end.line)
         THEN [panic |-> TRUE, text |-> text]
    ELSE LET start_idx == line_to_char(text, change.range.start.line)
                              + change.range.start.character
             end_idx == line_to_char(text, change.range.end.line)
                            + change.range.end.character
         IN  IF remove_panics(text, start_idx, end_idx)
             THEN [panic |-> TRUE, text |-> text]
             ELSE [panic |-> FALSE,
                   text |-> remove_insert(text, start_idx, end_idx, change.text)]

RECURSIVE apply_changes(_, _)
\* the loop of lines 96-105 on the rope behind the RefMut: the entries are
\* applied in place, in order, until one panics
apply_changes(text, changes) ==
    IF changes = <<>> THEN [panic |-> FALSE, text |-> text]
    ELSE LET r == apply_change(text, Head(changes))
         IN  IF r.panic THEN r ELSE apply_changes(r.text, Tail(changes))

\* the lexer's view of a character of markup: a line break, the shorthand
\* `~`, or text
CharClass(c) ==
    IF c = NL THEN "newline" ELSE IF c = "~" THEN "shorthand" ELSE "text"

\* typst::syntax::parse on markup without markers: runs of characters are
\* Text leaves, a `~` is a Shorthand leaf, a line break is a Space leaf, two
\* or more are a Parbreak leaf
RECURSIVE parse_items(_)
parse_items(text) ==
    IF text = <<>> THEN <<>>
    ELSE LET class == CharClass(Head(text))
             n == IF class = "shorthand" THEN 1
                  ELSE CHOOSE k \in 1..Len(text) :
                           /\ \A j \in 1..k : CharClass(text[j]) = class
                           /\ (k < Len(text) => CharClass(text[k + 1]) # class)
             run == SubSeq(text, 1, n)
             kind == CASE class = "text" -> "Text"
                       [] class = "shorthand" -> "Shorthand"
                       [] OTHER -> IF n = 1 THEN "Space" ELSE "Parbreak"
         IN  <<Leaf(kind, run)>> \o parse_items(SubSeq(text, n + 1, Len(text)))
parse(text) == Inner("Markup", parse_items(text))

\* the entries change notifications are made of: full replacements, ranges
\* that are valid in some texts, a range whose start is after its end, and
\* ranges past the end of every text
Entries ==
    { [range |-> NoRange, text |-> <<"c">>],
      [range |-> Range(0, 0, 0, 0), text |-> <<NL>>],
      [range |-> Range(0, 0, 0, 1), text |-> <<>>],
      [range |-> Range(1, 0, 1, 0), text |-> <<"c">>],
      [range |-> Range(0, 1, 0, 0), text |-> <<>>],
      [range |-> Range(0, 0, 9, 0), text |-> <<"c">>] }

ChangeLists == UNION {[1..n -> Entries] : n \in 1..MaxChanges}

\* ground truth: the position lies past the end of the text
PastEnd(text, p) ==
    \/ p.line >= len_lines(text)
    \/ line_to_char(text, p.line) + p.character > len_chars(text)

\* ground truth: the range of the entry is malformed for the text
Malformed(text, change) ==
    /\ ~change.range.none
    /\ \/ PastEnd(text, change.range.start)
       \/ PastEnd(text, change.range.end)
       \/ change.range.start.line > change.range.end.line
       \/ /\ change.range.start.line = change.range.end.line
          /\ change.range.start.character > change.range.end.character

RECURSIVE FirstMalformed(_, _, _)
\* ground truth: the index of the first entry that is malformed for the text
\* the entries before it produce, or 0
FirstMalformed(text, changes, k) ==
    IF changes = <<>> THEN 0
    ELSE IF Malformed(text, Head(changes)) THEN k
    ELSE FirstMalformed(apply_change(text, Head(changes)).text,
                        Tail(changes), k + 1)

\* ground truth: the offset of the start of a line, the number of
\* characters up to and including its line break
RefLineStart(text, line) ==
    CHOOSE n \in 0..Len(text) :
        /\ CountNl(SubSeq(text, 1, n)) = line
        /\ (n = 0 \/ text[n] = NL)

\* ground truth: the offset of a position, line start plus column
RefOffset(text, p) == RefLineStart(text, p.line) + p.character

\* ground truth: the text with the characters in [s, e) replaced by new and
\* every character outside of [s, e) kept
RefReplace(text, s, e, new) ==
    [i \in 1..(Len(text) - (e - s) + Len(new)) |->
        IF i <= s THEN text[i]
        ELSE IF i <= s + Len(new) THEN new[i - s]
        ELSE text[i - Len(new) + (e - s)]]

\* ground truth: the text after one entry with a well-formed range or none
RefApply(text, change) ==
    IF change.range.none THEN change.text
    ELSE RefReplace(text, RefOffset(text, change.range.start),
                    RefOffset(text, change.range.end), change.text)

RECURSIVE RefApplyAll(_, _)
\* ground truth: the text after the entries, each applied to the text the
\* entry before it produced
RefApplyAll(text, changes) ==
    IF changes = <<>> THEN text
    ELSE RefApplyAll(RefApply(text, Head(changes)), Tail(changes))

\* ground truth: whether the entries, all well-formed, leave the text as it
\* was: "none", "same" (the first entry leaves it as it was) or "cancel"
\* (the first entry changes it and the later ones undo that)
NetIdentity(text, changes) ==
    IF FirstMalformed(text, changes, 1) # 0 THEN "none"
    ELSE IF RefApplyAll(text, changes) # text THEN "none"
    ELSE IF RefApply(text, Head(changes)) = text THEN "same"
    ELSE "cancel"

\* the value of outcome before anything was handled
NoOutcome ==
    [op |-> "none", uri |-> "", result |-> "ok", known |-> TRUE, kept |-> TRUE,
     started |-> FALSE, malformed |-> 0, data |-> <<>>,
     entries |-> 0, asref |-> TRUE, identity |-> "none", same |-> TRUE,
     torn |-> FALSE]

\* ground truth: the handling of an open notification for the uri has
\* started, whether or not it has inserted the entry yet
OpenStarted(uri) ==
    \/ uri \in DOMAIN document_map
    \/ \E o \in opening : o.uri = uri

\* the calls of did_change and of semantic_tokens_full that can be in
\* progress at the same time
Changers == {"change1", "change2"}
Readers == {"tokens1"}

\* no call holds a reference into the map
NoChange == [active |-> FALSE, uri |-> "", changes |-> <<>>, done |-> 0,
             before |-> <<>>]
NoRead == [active |-> FALSE, uri |-> "", start |-> <<>>, buf |-> <<>>,
           partial |-> FALSE]
NoRefs ==
    /\ changing = [w \in Changers |-> NoChange]
    /\ reading = [r \in Readers |-> NoRead]

\* main (lines 213-216): the server starts with an empty map
SrvInit ==
    /\ document_map = <<>>
    /\ opening = {}
    /\ crashed = FALSE
    /\ outcome = NoOutcome
    /\ NoRefs

\* the encoder is idle while the server is looked at
EncIdle ==
    /\ root = Inner("Markup", <<>>)
    /\ todo = <<>>
    /\ tokens = <<>>
    /\ ff = [delta_line |-> 0, delta_start |-> 0]
    /\ pos = [line |-> 0, col |-> 0]
    /\ marks = <<>>
    /\ last = NoStep
    /\ since = NoSince

\* did_open up to its await (lines 81-84): the log message is sent and the
\* handler is suspended
did_open_log(uri, text) ==
    /\ ~crashed
    /\ Cardinality(opening) < MaxOpening
    /\ opening' = opening \cup {[uri |-> uri, text |-> text]}
    /\ UNCHANGED <<document_map, crashed, outcome>>
    /\ UNCHANGED <<changing, reading>>
    /\ UNCHANGED encVars

\* did_open after its await (lines 85-87): the rope is inserted
did_open_insert(o) ==
    /\ ~crashed
    /\ o \in opening
    /\ opening' = opening \ {o}
    /\ document_map' =
          [u \in DOMAIN document_map \cup {o.uri} |->
              IF u = o.uri THEN o.text ELSE document_map[u]]
    /\ outcome' = [NoOutcome EXCEPT !.op = "did_open", !.uri = o.uri,
                                    !.known = o.uri \in DOMAIN document_map,
                                    !.kept = (document_map' = document_map)]
    /\ UNCHANGED crashed
    /\ UNCHANGED <<changing, reading>>
    /\ UNCHANGED encVars

\* semantic_tokens_full (lines 61-79): unwrap the entry, parse its text,
\* encode the tree; the unwrap of a missing entry panics
semantic_tokens_full(uri) ==
    /\ ~crashed
    /\ IF uri \in DOMAIN document_map
       THEN /\ outcome' = [NoOutcome EXCEPT
                              !.op = "semantic_tokens_full", !.uri = uri,
                              !.started = TRUE,
                              !.data = traverse_highlight(parse(document_map[uri]))]
            /\ UNCHANGED crashed
       ELSE /\ outcome' = [NoOutcome EXCEPT
                              !.op = "semantic_tokens_full", !.uri = uri,
                              !.started = OpenStarted(uri),
                              !.result = "panic", !.known = FALSE]
            /\ crashed' = TRUE
    /\ UNCHANGED <<document_map, opening>>
    /\ UNCHANGED <<changing, reading>>
    /\ UNCHANGED encVars

\* did_change (lines 90-106): unwrap the entry and apply the entries to the
\* rope in place; the unwrap of a missing entry and a bad range panic
did_change(uri, changes, cap) ==
    /\ ~crashed
    /\ IF uri \in DOMAIN document_map
       THEN \E r \in {apply_changes(document_map[uri], changes)} :
                /\ len_chars(r.text) <= cap
                /\ document_map' = [document_map EXCEPT ![uri] = r.text]
                /\ crashed' = r.panic
                /\ outcome' = [NoOutcome EXCEPT
                                  !.op = "did_change", !.uri = uri,
                                  !.started = TRUE,
                                  !.result = IF r.panic THEN "panic" ELSE "ok",
                                  !.kept = (r.text = document_map[uri]),
                                  !.entries = Len(changes),
                                  !.asref =
                                      (FirstMalformed(document_map[uri],
                                                      changes, 1) = 0
                                         => r.text = RefApplyAll(
                                                document_map[uri], changes)),
                                  !.identity =
                                      NetIdentity(document_map[uri], changes),
                                  !.same =
                                      (traverse_highlight(parse(r.text))
                                         = traverse_highlight(
                                               parse(document_map[uri]))),
                                  !.malformed =
                                      FirstMalformed(document_map[uri], changes, 1)]
       ELSE /\ crashed' = TRUE
            /\ outcome' = [NoOutcome EXCEPT
                              !.op = "did_change", !.uri = uri,
                              !.started = OpenStarted(uri),
                              !.result = "panic", !.known = FALSE]
            /\ UNCHANGED document_map
    /\ UNCHANGED opening
    /\ UNCHANGED <<changing, reading>>
    /\ UNCHANGED encVars

Init == EncIdle /\ SrvInit

Next ==
    \/ \E uri \in Uris, text \in OpenTexts : did_open_log(uri, text)
    \/ \E o \in opening : did_open_insert(o)
    \/ \E uri \in Uris : semantic_tokens_full(uri)
    \/ \E uri \in Uris, changes \in ChangeLists :
          did_change(uri, changes, MaxDocLen)

\* the server handling notifications and requests; a handler runs without
\* interruption between its awaits
Spec == Init /\ [][Next]_vars

EncStart == EncInit /\ SrvInit

\* the encoder run on every tree of Roots; the server is idle
EncSpec == EncStart /\ [][EncNext]_vars

-----------------------------------------------------------------------------
(* Properties of the encoder.                                              *)

RECURSIVE Implied(_, _)
\* the absolute position a client derives for token i from the deltas
Implied(toks, i) ==
    IF i = 1
    THEN [line |-> toks[1].delta_line, col |-> toks[1].delta_start]
    ELSE LET prev == Implied(toks, i - 1)
         IN  [ line |-> prev.line + toks[i].delta_line,
               col |-> IF toks[i].delta_line = 0
                       THEN prev.col + toks[i].delta_start
                       ELSE toks[i].delta_start ]

\* p is at or before q in the source
AtOrBefore(p, q) == p.line < q.line \/ (p.line = q.line /\ p.col <= q.col)

\* the walk is over
Done == todo = <<>>

\* the step-by-step walk computes what the recursive function returns
WalkIsTraverse == Done => tokens = traverse_highlight(root)

\* the last step handled a Strong or Emph node
LastIsWrapper == highlight(last.node) \in {"Strong", "Emph"}

\* the last step handled a raw block of at least two lines
LastIsMultilineRaw ==
    last.leaf /\ last.node.kind = "Raw" /\ CountNl(last.node.text) >= 1

\* C1: the position implied by the running sum of the deltas of every
\* emitted token is the line and column at which its node (or its line of a
\* raw block) starts in the source.
C1_PositionsExact ==
    \A i \in 1..Len(tokens) : Implied(tokens, i) = marks[i]

\* C2: no delta is negative, a token on the line of its predecessor starts
\* at or after the predecessor's end, no two tokens on one implied line
\* share a column, and the tokens come in document order.
C2_NoRegressNoOverlap ==
    /\ \A i \in 1..Len(tokens) :
          /\ tokens[i].delta_line >= 0
          /\ tokens[i].delta_start >= 0
          /\ (i > 1 /\ tokens[i].delta_line = 0)
                => tokens[i].delta_start >= tokens[i - 1].length
    /\ \A i, j \in 1..Len(tokens) :
          i < j =>
            /\ AtOrBefore(marks[i], marks[j])
            /\ AtOrBefore(Implied(tokens, i), Implied(tokens, j))
            /\ Implied(tokens, i).line = Implied(tokens, j).line
                  => Implied(tokens, i).col + tokens[i].length
                         <= Implied(tokens, j).col

\* a token follows, on the same line, the last line of a raw block or a
\* block comment that spans lines
C2_Witness ==
    /\ Done
    /\ \E i \in 2..Len(tokens) :
          /\ tokens[i].delta_line = 0
          /\ tokens[i].delta_start > tokens[i - 1].length
          /\ tokens[i - 1].delta_line = 1
    /\ \E i \in 2..Len(tokens) :
          /\ tokens[i].delta_line = 0
          /\ tokens[i - 1].token_type = to_idx("Comment")
          /\ marks[i].line > marks[i - 1].line

\* C3: when the walk reaches a Strong or Emph node it pushes exactly one
\* token, as long as the whole node and of the node's category, and goes on
\* with what follows the node: none of its descendants is visited.
C3_WrapperAtomic ==
    LastIsWrapper =>
        /\ last.leaf
        /\ Len(tokens) = last.ntok + 1
        /\ tokens[Len(tokens)].length = StrLen(FlatText(last.node))
        /\ tokens[Len(tokens)].token_type
              = (IF last.node.kind = "Strong" THEN 3 ELSE 4)
        /\ TypstSemanticToken[tokens[Len(tokens)].token_type + 1]
              = last.node.kind
        /\ todo = last.rest

\* a wrapper holding a nested wrapper or a raw block was handled after an
\* earlier token
C3_Witness ==
    /\ LastIsWrapper
    /\ last.ntok > 0
    /\ \E c \in 1..Len(last.node.children[2].children) :
          last.node.children[2].children[c].kind \in {"Emph", "Raw"}

\* C4: a raw block of N >= 2 lines gets exactly N tokens, all of type Raw;
\* the first carries the gap accumulated before the block, each of the
\* others has deltaLine = 1 and deltaStart = 0.
C4_RawBlockTokens ==
    LastIsMultilineRaw =>
        LET n == CountNl(last.node.text) + 1
        IN  /\ Len(tokens) = last.ntok + n
            /\ \A k \in 1..n :
                  /\ last.ntok + k \in DOMAIN tokens
                  /\ tokens[last.ntok + k].token_type = 6
                  /\ TypstSemanticToken[tokens[last.ntok + k].token_type + 1]
                        = "Raw"
                  /\ k = 1 =>
                        /\ tokens[last.ntok + k].delta_line = last.ff.delta_line
                        /\ tokens[last.ntok + k].delta_start = last.ff.delta_start
                  /\ k > 1 =>
                        /\ tokens[last.ntok + k].delta_line = 1
                        /\ tokens[last.ntok + k].delta_start = 0

\* a raw block of three lines was handled with a gap of lines and columns
\* pending from an earlier token
C4_Witness ==
    /\ LastIsMultilineRaw
    /\ CountNl(last.node.text) = 2
    /\ last.ntok > 0
    /\ last.ff.delta_line > 0
    /\ last.ff.delta_start > 0

\* C5: every token of a raw block of several lines, the first included, is
\* as long as its own line of the block.
C5_RawTokenPerLine ==
    LastIsMultilineRaw =>
        LET lines == SplitNl(last.node.text)
        IN  \A k \in 1..Len(lines) :
               /\ last.ntok + k \in DOMAIN tokens
               /\ tokens[last.ntok + k].length = StrLen(lines[k])

\* the walk of the tree of "# Title\n*bold* word" is over
C6_Witness == root = TitleBoldTree /\ Done

\* C6 as claimed: for "# Title\n*bold* word" the encoder returns a Heading
\* token of length 7 at deltas (0, 0) and a Strong token of length 6 at
\* deltas (1, 0).
C6_HeadingAndStrong ==
    C6_Witness =>
        tokens = << [delta_line |-> 0, delta_start |-> 0, length |-> 7,
                     token_type |-> 9, token_modifiers_bitset |-> 0],
                    [delta_line |-> 1, delta_start |-> 0, length |-> 6,
                     token_type |-> 3, token_modifiers_bitset |-> 0] >>

\* C6 as amended: for "# Title\n*bold* word" the encoder returns exactly one
\* token, the Strong token of length 6 at deltas (1, 0); the composite
\* Heading node gets no token.
C6_StrongOnly ==
    C6_Witness =>
        tokens = << [delta_line |-> 1, delta_start |-> 0, length |-> 6,
                     token_type |-> 3, token_modifiers_bitset |-> 0] >>

RECURSIVE AllNone(_)
\* every node of the tree is classified "no category"
AllNone(node) ==
    /\ highlight(node) = "None"
    /\ \A c \in 1..Len(node.children) : AllNone(node.children[c])

\* C7: a tree whose nodes are all uncategorised yields no token.
C7_PlainProseNoTokens == AllNone(root) => tokens = <<>>

\* the walk of a tree of plain text, whitespace and line breaks is over
C7_Witness ==
    /\ AllNone(root)
    /\ Done
    /\ Len(root.children) >= 2
    /\ pos.line >= 2
    /\ \E c \in 1..Len(root.children) : root.children[c].kind = "Text"

\* the last step pushed a token for its node
LastEmitted == last.leaf /\ Emits(last.node)

\* the tokens pushed by the last step
LastTokens == (last.ntok + 1)..Len(tokens)

\* C13: the type index of every token is the position (from zero) of the
\* name of the token's category in the legend initialize advertises, for
\* the token of a node and for the tokens of the lines of a raw block; the
\* legend names every category once.
C13_TypeIsLegendPosition ==
    /\ \A i, j \in 1..Len(legend) : legend[i] = legend[j] => i = j
    /\ last.leaf =>
          \A k \in LastTokens :
             /\ tokens[k].token_type + 1 \in 1..Len(legend)
             /\ legend[tokens[k].token_type + 1]
                   = (IF k = last.ntok + 1 THEN highlight(last.node) ELSE "Raw")

\* the walk is over and tokens of a comment, a wrapper and a raw block of
\* several lines were pushed
C13_Witness ==
    /\ Done
    /\ LastIsMultilineRaw
    /\ \E i, j \in 1..last.ntok :
          /\ legend[tokens[i].token_type + 1] = "Comment"
          /\ legend[tokens[j].token_type + 1] \in {"Strong", "Emph"}

\* the number of UTF-16 code units of a character: every character of the
\* model, the two-byte "W" included, is one unit
CharUtf16(c) == 1

RECURSIVE Utf16Len(_)
\* the number of UTF-16 code units of a text
Utf16Len(s) == IF s = <<>> THEN 0 ELSE CharUtf16(Head(s)) + Utf16Len(Tail(s))

\* C16: the length of a token is the number of UTF-16 code units of the text
\* it covers, and the column delta of a token that starts on the line of
\* its predecessor is the number of UTF-16 code units between their starts.
C16_Utf16Units ==
    LastEmitted =>
        /\ ~IsMultilineRaw(last.node) =>
              tokens[last.ntok + 1].length = Utf16Len(FlatText(last.node))
        /\ IsMultilineRaw(last.node) =>
              \A k \in 2..Len(SplitNl(last.node.text)) :
                 tokens[last.ntok + k].length
                    = Utf16Len(SplitNl(last.node.text)[k])
        /\ ( /\ last.since.has
             /\ ~ContainsNl(FlatText(last.since.node))
             /\ ~ContainsNl(last.since.text) ) =>
              tokens[last.ntok + 1].delta_start
                 = Utf16Len(FlatText(last.since.node)) + Utf16Len(last.since.text)

\* the last step pushed a token U after a token T with line breaks in the
\* whitespace between them
BreaksSinceToken ==
    LastEmitted /\ last.since.has /\ CountNl(last.since.text) >= 1

\* C17: when the text between a token T and the next token U is
\* uncategorised and holds k >= 1 line breaks, U has deltaLine = k and
\* deltaStart = the number of characters between the last of these line
\* breaks and the start of U.
C17_BreaksCarryLines ==
    BreaksSinceToken =>
        /\ tokens[last.ntok + 1].delta_line = CountNl(last.since.text)
        /\ tokens[last.ntok + 1].delta_start
              = Len(Last(SplitNl(last.since.text)))

\* the last step pushed a token on the last line of the raw block of several
\* lines that got the tokens before it
TokenAfterRawBlock ==
    /\ LastEmitted
    /\ last.since.has
    /\ IsMultilineRaw(last.since.node)
    /\ ~ContainsNl(last.since.text)

\* C18: the token that follows a raw block of several lines on the block's
\* last line has deltaLine = 0 and deltaStart = the length of that last line
\* plus the length of the uncategorised text in between.
C18_CarryAfterRawBlock ==
    TokenAfterRawBlock =>
        /\ tokens[last.ntok + 1].delta_line = 0
        /\ tokens[last.ntok + 1].delta_start
              = StrLen(Last(SplitNl(last.since.node.text)))
                   + StrLen(last.since.text)

\* a token was pushed after a raw block of several lines and some text
C18_Witness ==
    /\ TokenAfterRawBlock
    /\ last.since.text # <<>>
    /\ StrLen(Last(SplitNl(last.since.node.text)))
          # RangeLen(last.since.node)

-----------------------------------------------------------------------------
(* Properties of the server.                                               *)

\* the last thing handled was a request or a change for a uri without entry
UnknownUriHandled ==
    /\ outcome.op \in {"semantic_tokens_full", "did_change"}
    /\ ~outcome.known

\* C8: a semantic-tokens request or a change notification for a uri without
\* an entry ends in an error outcome, the store is unchanged and the server
\* keeps running.
C8_UnknownUriIsError ==
    UnknownUriHandled =>
        /\ outcome.result = "error"
        /\ outcome.kept
        /\ ~crashed

\* C9: a change notification with an entry whose range is malformed ends in
\* an error outcome: it is neither applied nor does it take the server down.
C9_MalformedRangeIsError ==
    (outcome.op = "did_change" /\ outcome.known /\ outcome.malformed > 0) =>
        /\ outcome.result = "error"
        /\ ~crashed

\* C10: after a change notification that failed at one of its entries the
\* text of every document is what it was before the notification and the
\* server keeps running.
C10_FailedChangeKeepsStore ==
    (outcome.op = "did_change" /\ outcome.known /\ outcome.result # "ok") =>
        /\ outcome.kept
        /\ ~crashed

\* C19: once the handling of an open notification for a uri has started, a
\* semantic-tokens request or a change notification for that uri that is
\* handled afterwards finds the entry of the uri in the map, also while the
\* open handler is suspended on its log message.
C19_OpenStartedIsKnown ==
    (outcome.op \in {"semantic_tokens_full", "did_change"} /\ outcome.started)
        => outcome.known

-----------------------------------------------------------------------------
(* One open document under change notifications.                           *)

ChangeUri == "a.typ"

\* the characters of the documents: a letter, the shorthand `~`, a line break
DocChars == {"c", "~", NL}

\* the texts of the document when the first change notification arrives
DocTexts == UNION {[1..n -> DocChars] : n \in 0..MaxTextLen}

\* the entries of the change notifications: a full replacement, replacements
\* of one character, an insertion and a deletion of a line break, a deletion
\* and an insertion of a character, on the first and on the second line
Edits ==
    { [range |-> NoRange, text |-> <<"~">>],
      [range |-> Range(0, 0, 0, 1), text |-> <<"~">>],
      [range |-> Range(0, 1, 0, 2), text |-> <<"c">>],
      [range |-> Range(0, 1, 0, 1), text |-> <<NL>>],
      [range |-> Range(0, 1, 1, 0), text |-> <<>>],
      [range |-> Range(1, 0, 1, 1), text |-> <<"~">>],
      [range |-> Range(1, 0, 1, 0), text |-> <<"c">>],
      [range |-> Range(0, 0, 0, 1), text |-> <<>>] }

EditLists == UNION {[1..n -> Edits] : n \in 1..MaxChanges}

\* the document was opened with one of DocTexts and no handler is suspended
ChangeStore ==
    /\ document_map \in [{ChangeUri} -> DocTexts]
    /\ opening = {}
    /\ crashed = FALSE
    /\ outcome = NoOutcome
    /\ NoRefs

ChangeInit == EncIdle /\ ChangeStore

ChangeNext ==
    \/ \E changes \in EditLists : did_change(ChangeUri, changes, MaxTextLen)
    \/ semantic_tokens_full(ChangeUri)

\* change notifications and requests for one open document
ChangeSpec == ChangeInit /\ [][ChangeNext]_vars

\* the last notification handled had well-formed ranges only
LastChangeWellFormed ==
    outcome.op = "did_change" /\ outcome.known /\ outcome.malformed = 0

\* C12: the entries of a change notification are applied in list order, each
\* to the text the entry before it produced: an entry with a well-formed
\* range replaces exactly the characters in [start, end), offsets being
\* line start plus column, and keeps every other character; an entry
\* without a range replaces the whole text.
C12_EntriesAppliedInOrder ==
    LastChangeWellFormed => (outcome.result = "ok" /\ outcome.asref)

\* a notification of several entries changed the text of several lines
C12_Witness ==
    /\ LastChangeWellFormed
    /\ outcome.entries >= 2
    /\ ~outcome.kept
    /\ CountNl(document_map[ChangeUri]) >= 1
    /\ Len(document_map[ChangeUri]) = MaxTextLen

\* C11: a semantic-tokens request returns the same tokens before and after a
\* change notification whose net effect on the text is the identity.
C11_IdentityChangeKeepsTokens ==
    (LastChangeWellFormed /\ outcome.identity # "none") =>
        (outcome.result = "ok" /\ outcome.same)

\* entries that cancel out were applied to a text that has tokens
C11_Witness ==
    /\ LastChangeWellFormed
    /\ outcome.identity = "cancel"
    /\ traverse_highlight(parse(document_map[ChangeUri])) # <<>>

-----------------------------------------------------------------------------
(* The handlers of one open document running at the same time, one step    *)
(* per access to the rope behind a reference of the map.                   *)

\* get_mut that never waits
get_mut_never_blocks(uri) == FALSE

\* DashMap::get_mut (line 94) waits while a Ref or a RefMut of the entry is
\* alive: it takes the write lock
get_mut_blocks(uri) ==
    \/ \E w \in Changers : changing[w].active /\ changing[w].uri = uri
    \/ \E r \in Readers : reading[r].active /\ reading[r].uri = uri

\* get that never waits
get_never_blocks(uri) == FALSE

\* DashMap::get (line 67) waits while a RefMut of the entry is alive: it
\* takes the read lock
get_blocks(uri) ==
    \E w \in Changers : changing[w].active /\ changing[w].uri = uri

\* ground truth: a change notification has applied some of its entries to
\* the text of the uri and not yet all of them
PartWay(uri) ==
    \E w \in Changers :
        /\ changing[w].active /\ changing[w].uri = uri
        /\ changing[w].done > 0
        /\ changing[w].done < Len(changing[w].changes)

\* the texts the document was opened with
ConcTexts == {<<"c">>, <<"~", "c">>}

\* the entries of the change notifications: a full replacement, an
\* insertion at the start, a deletion of the first character
ConcEdits ==
    { [range |-> NoRange, text |-> <<"~">>],
      [range |-> Range(0, 0, 0, 0), text |-> <<"c">>],
      [range |-> Range(0, 0, 0, 1), text |-> <<>>] }

ConcLists == UNION {[1..n -> ConcEdits] : n \in 1..MaxChanges}

\* did_change up to get_mut (lines 91-94): unwrap the RefMut of the entry
did_change_get_mut(w, uri, changes) ==
    /\ ~crashed
    /\ ~changing[w].active
    /\ IF uri \in DOMAIN document_map
       THEN /\ ~get_mut_blocks(uri)
            /\ len_chars(apply_changes(document_map[uri], changes).text)
                  <= MaxDocLen
            /\ changing' = [changing EXCEPT ![w] =
                               [active |-> TRUE, uri |-> uri, changes |-> changes,
                                done |-> 0, before |-> document_map[uri]]]
            /\ UNCHANGED <<crashed, outcome>>
       ELSE /\ crashed' = TRUE
            /\ outcome' = [NoOutcome EXCEPT
                              !.op = "did_change", !.uri = uri,
                              !.started = OpenStarted(uri),
                              !.result = "panic", !.known = FALSE]
            /\ UNCHANGED changing
    /\ UNCHANGED <<document_map, opening, reading>>
    /\ UNCHANGED encVars

\* one iteration of the loop of did_change (lines 96-105) on the rope behind
\* the RefMut
did_change_entry(w) ==
    /\ ~crashed
    /\ changing[w].active
    /\ changing[w].done < Len(changing[w].changes)
    /\ \E r \in {apply_change(document_map[changing[w].uri],
                              changing[w].changes[changing[w].done + 1])} :
          IF r.panic
          THEN /\ crashed' = TRUE
               /\ outcome' = [NoOutcome EXCEPT
                                 !.op = "did_change", !.uri = changing[w].uri,
                                 !.started = TRUE, !.result = "panic",
                                 !.entries = Len(changing[w].changes),
                                 !.kept = (document_map[changing[w].uri]
                                             = changing[w].before)]
               /\ UNCHANGED <<document_map, changing>>
          ELSE /\ document_map' =
                     [document_map EXCEPT ![changing[w].uri] = r.text]
               /\ changing' = [changing EXCEPT ![w].done = @ + 1]
               /\ UNCHANGED <<crashed, outcome>>
    /\ UNCHANGED <<opening, reading>>
    /\ UNCHANGED encVars

\* the end of did_change (line 106): the RefMut is dropped
did_change_drop(w) ==
    /\ ~crashed
    /\ changing[w].active
    /\ changing[w].done = Len(changing[w].changes)
    /\ changing' = [changing EXCEPT ![w] = NoChange]
    /\ outcome' = [NoOutcome EXCEPT
                      !.op = "did_change", !.uri = changing[w].uri,
                      !.started = TRUE,
                      !.entries = Len(changing[w].changes),
                      !.kept = (document_map[changing[w].uri]
                                  = changing[w].before)]
    /\ UNCHANGED <<document_map, opening, crashed, reading>>
    /\ UNCHANGED encVars

\* semantic_tokens_full up to get (lines 65-67): unwrap the Ref of the entry
semantic_tokens_get(r, uri) ==
    /\ ~crashed
    /\ ~reading[r].active
    /\ IF uri \in DOMAIN document_map
       THEN /\ ~get_blocks(uri)
            /\ reading' = [reading EXCEPT ![r] =
                              [active |-> TRUE, uri |-> uri,
                               start |-> document_map[uri], buf |-> <<>>,
                               partial |-> PartWay(uri)]]
            /\ UNCHANGED <<crashed, outcome>>
       ELSE /\ crashed' = TRUE
            /\ outcome' = [NoOutcome EXCEPT
                              !.op = "semantic_tokens_full", !.uri = uri,
                              !.started = OpenStarted(uri),
                              !.result = "panic", !.known = FALSE]
            /\ UNCHANGED reading
    /\ UNCHANGED <<document_map, opening, changing>>
    /\ UNCHANGED encVars

\* text.chunks().collect::<String>() (line 68), one character at a time
semantic_tokens_collect(r) ==
    /\ ~crashed
    /\ reading[r].active
    /\ Len(reading[r].buf) < Len(document_map[reading[r].uri])
    /\ reading' = [reading EXCEPT ![r].buf =
                      Append(@, document_map[reading[r].uri][Len(@) + 1])]
    /\ UNCHANGED <<document_map, opening, crashed, outcome, changing>>
    /\ UNCHANGED encVars

\* the rest of semantic_tokens_full (lines 68-79): the collected text is
\* parsed and encoded, the Ref is dropped
semantic_tokens_respond(r) ==
    /\ ~crashed
    /\ reading[r].active
    /\ Len(reading[r].buf) >= Len(document_map[reading[r].uri])
    /\ outcome' = [NoOutcome EXCEPT
                      !.op = "semantic_tokens_full", !.uri = reading[r].uri,
                      !.started = TRUE,
                      !.torn = (reading[r].partial
                                  \/ reading[r].buf # reading[r].start),
                      !.data = traverse_highlight(parse(reading[r].buf))]
    /\ reading' = [reading EXCEPT ![r] = NoRead]
    /\ UNCHANGED <<document_map, opening, crashed, changing>>
    /\ UNCHANGED encVars

\* the document was opened with one of ConcTexts and no handler is running
ConcStore ==
    /\ document_map \in [{ChangeUri} -> ConcTexts]
    /\ opening = {}
    /\ crashed = FALSE
    /\ outcome = NoOutcome
    /\ NoRefs

ConcInit == EncIdle /\ ConcStore

ConcNext ==
    \/ \E w \in Changers, changes \in ConcLists :
          did_change_get_mut(w, ChangeUri, changes)
    \/ \E w \in Changers : did_change_entry(w)
    \/ \E w \in Changers : did_change_drop(w)
    \/ \E r \in Readers : semantic_tokens_get(r, ChangeUri)
    \/ \E r \in Readers : semantic_tokens_collect(r)
    \/ \E r \in Readers : semantic_tokens_respond(r)

\* change notifications and requests for one open document whose handlers
\* run at the same time
ConcSpec == ConcInit /\ [][ConcNext]_vars

\* C14: a semantic-tokens request that runs while change notifications for
\* the document are handled encodes the text of one point in time, the
\* moment it got its reference: the text it collects is that text, not
\* torn, and no notification had applied only some of its entries to it.
C14_ReadsOneBoundaryText ==
    /\ \A r \in Readers :
          reading[r].active =>
             /\ ~reading[r].partial
             /\ document_map[reading[r].uri] = reading[r].start
             /\ reading[r].buf
                   = SubSeq(reading[r].start, 1, Len(reading[r].buf))
    /\ (outcome.op = "semantic_tokens_full" /\ outcome.known) => ~outcome.torn

\* a request has collected a part of the text that a notification of
\* several entries has changed
C14_Witness ==
    /\ \E r \in Readers :
          /\ reading[r].active
          /\ reading[r].buf # <<>>
          /\ reading[r].buf # reading[r].start
    /\ outcome.op = "did_change" /\ outcome.entries >= 2 /\ ~outcome.kept

\* C15: change notifications for one document are serialized: at most one
\* of them holds the text at any time, and the text is what the entries it
\* has applied so far make of the text it found, so the entries of two
\* notifications never interleave.
C15_ChangesSerialized ==
    /\ \A w1, w2 \in Changers :
          ( /\ changing[w1].active /\ changing[w2].active
            /\ changing[w1].uri = changing[w2].uri ) => w1 = w2
    /\ \A w \in Changers :
          changing[w].active =>
             document_map[changing[w].uri]
                = apply_changes(changing[w].before,
                                SubSeq(changing[w].changes, 1,
                                       changing[w].done)).text

\* a notification has applied all of its several entries after another
\* notification changed the text
C15_Witness ==
    /\ \E w \in Changers :
          /\ changing[w].active
          /\ changing[w].done = Len(changing[w].changes)
          /\ changing[w].done >= 2
          /\ document_map[changing[w].uri] # changing[w].before
    /\ outcome.op = "did_change" /\ ~outcome.kept

=============================================================================
